---- MODULE Spec2Model ----
(***************************************************************************)
(* Model of the RATP water-fountain dashboard (app.py and pages/*.py):     *)
(* the preparation of the raw table (prepare_data), the cascading sidebar  *)
(* filters (apply_filters), the indicators (show_kpis, show_synthese) and  *)
(* the page scripts that call them, one rendering pass at a time.          *)
(*                                                                         *)
(* Text is a sequence of one-character strings.  A cell of a table is a    *)
(* pair <<kind, text>>: "str" (a Python str), "num" (a number, with its    *)
(* printed form) or "nan" (a missing value, NaN).                          *)
(***************************************************************************)
EXTENDS Integers, Sequences, FiniteSets, TLC

\* Largest number of rows of a raw table.
MaxRows == 2

(***************************************************************************)
(* Characters and Python's str operations                                  *)
(***************************************************************************)

\* The characters in use, in code point order (Python compares str by code point).
Alphabet ==
    << " ", ".", "0", "1", "2", "3", "4", "5", "6", "7", "8", "9",
       "A", "B", "C", "D", "E", "M", "N", "O", "P", "R", "T", "Z",
       "a", "b", "c", "d", "e", "g", "i", "l", "m", "n", "o", "p", "r", "s", "t",
       "u", "v", "x", "z",
       "É", "Ô", "é", "ô" >>

Ord(c) == CHOOSE i \in 1..Len(Alphabet) : Alphabet[i] = c

\* a < b for two str values: lexicographic by code point.
RECURSIVE str_lt(_, _)
str_lt(a, b) ==
    IF b = << >> THEN FALSE
    ELSE IF a = << >> THEN TRUE
    ELSE IF Head(a) = Head(b) THEN str_lt(Tail(a), Tail(b))
    ELSE Ord(Head(a)) < Ord(Head(b))

IsSpace(c) == c = " "

IsDigitChar(c) == c \in {"0", "1", "2", "3", "4", "5", "6", "7", "8", "9"}

RECURSIVE lstrip(_)
lstrip(s) == IF s # << >> /\ IsSpace(Head(s)) THEN lstrip(Tail(s)) ELSE s

RECURSIVE rstrip(_)
rstrip(s) ==
    IF s # << >> /\ IsSpace(s[Len(s)]) THEN rstrip(SubSeq(s, 1, Len(s) - 1)) ELSE s

\* str.strip(): leading and trailing whitespace removed.
strip(s) == rstrip(lstrip(s))

\* str.isdigit(): at least one character, and every character a digit.
isdigit(s) == s # << >> /\ \A i \in 1..Len(s) : IsDigitChar(s[i])

UpperChars == << "A", "B", "C", "D", "E", "M", "N", "O", "P", "R", "T", "Z", "É", "Ô" >>
LowerChars == << "a", "b", "c", "d", "e", "m", "n", "o", "p", "r", "t", "z", "é", "ô" >>

lower_char(c) ==
    IF \E i \in 1..Len(UpperChars) : UpperChars[i] = c
    THEN LowerChars[CHOOSE i \in 1..Len(UpperChars) : UpperChars[i] = c]
    ELSE c

\* str.lower()
lower(s) == [i \in 1..Len(s) |-> lower_char(s[i])]

\* A faulty variant of contains: the whole value must be the pattern.
contains_equal(s, pat) == s = pat

\* Series.str.contains(pat) for a pattern without regex metacharacters.
contains(s, pat) ==
    \E i \in 1..(Len(s) - Len(pat) + 1) : SubSeq(s, i, i + Len(pat) - 1) = pat

(***************************************************************************)
(* Cells                                                                   *)
(***************************************************************************)

NaN == << "nan", << >> >>
Txt(s) == << "str", s >>
Num(s) == << "num", s >>

kind(cell) == cell[1]
text(cell) == cell[2]

isna(cell) == kind(cell) = "nan"

\* astype(str) of one cell: NaN prints as "nan", a number as its digits.
astype_str(cell) ==
    IF isna(cell) THEN Txt(<< "n", "a", "n" >>) ELSE Txt(text(cell))

\* Whether a text reads as a number, for the unsigned decimal forms: digits
\* with at most one point and at least one digit, whitespace around allowed.
is_number_text(s) ==
    LET t == strip(s) IN
        /\ t # << >>
        /\ \A i \in 1..Len(t) : IsDigitChar(t[i]) \/ t[i] = "."
        /\ \E i \in 1..Len(t) : IsDigitChar(t[i])
        /\ Cardinality({i \in 1..Len(t) : t[i] = "."}) <= 1

\* pd.to_numeric(errors="coerce") of one cell.
to_numeric(cell) ==
    IF kind(cell) = "num" THEN cell
    ELSE IF kind(cell) = "str" /\ is_number_text(text(cell)) THEN Num(strip(text(cell)))
    ELSE NaN

\* fillna(value) of one cell.
fillna(cell, value) == IF isna(cell) THEN Txt(value) ELSE cell

\* Series.str.lower() of one cell: a value that is not a str gives NaN.
str_lower(cell) == IF kind(cell) = "str" THEN Txt(lower(text(cell))) ELSE NaN

(***************************************************************************)
(* The raw table                                                           *)
(***************************************************************************)

RawColumns ==
    { "Ligne", "Station ou Gare", "Longitude", "Latitude", "Adresse",
      "Code postal", "Commune", "En zone contrôlée ou non", "Point_geographique" }

RawRow(ligne, station, lon, lat, adresse, cp, commune, zone) ==
    [c \in RawColumns |->
        CASE c = "Ligne" -> ligne
          [] c = "Station ou Gare" -> station
          [] c = "Longitude" -> lon
          [] c = "Latitude" -> lat
          [] c = "Adresse" -> adresse
          [] c = "Code postal" -> cp
          [] c = "Commune" -> commune
          [] c = "En zone contrôlée ou non" -> zone
          [] OTHER -> NaN]

sNation == << "N", "a", "t", "i", "o", "n" >>
sOpera == << "O", "p", "é", "r", "a" >>
sParis == << "P", "a", "r", "i", "s" >>
sNanterre == << "N", "a", "n", "t", "e", "r", "r", "e" >>
sZoneControlee == << "Z", "o", "n", "e", " ", "C", "o", "n", "t", "r", "ô", "l", "é", "e" >>
sNon == << "N", "o", "n" >>

\* The rows a raw table is made of.
RawRows ==
    { RawRow(Txt(<< "1" >>), Txt(sNation), Num(<< "2", ".", "3" >>),
             Txt(<< "4", "8", ".", "8" >>), Txt(<< "1", " ", "p", "l" >>),
             Num(<< "7", "5", "0", "1", "2" >>), Txt(sParis), Txt(sZoneControlee)),
      RawRow(Txt(<< "A" >>), Txt(sNation), Num(<< "2", ".", "4" >>),
             Num(<< "4", "8", ".", "9" >>), NaN, NaN, Txt(sParis), Txt(sNon)),
      RawRow(Txt(<< " ", "7" >>), Txt(sOpera), Txt(<< " ", "2", ".", "3" >>),
             Num(<< "4", "8", ".", "8" >>), NaN, Txt(<< "7", "5", "0", "0", "9" >>),
             Txt(sParis), NaN),
      RawRow(Txt(<< "T", "3" >>), NaN, Num(<< "2", ".", "2" >>),
             Num(<< "4", "8", ".", "9" >>), Txt(<< "2", " ", "a", "v" >>), NaN, NaN,
             Txt(sZoneControlee)),
      RawRow(NaN, Txt(sOpera), Num(<< "2", ".", "2" >>), Txt(<< "4", "8" >>),
             NaN, NaN, Txt(sNanterre), Txt(sNon)),
      RawRow(Txt(<< "7" >>), Txt(sOpera), Num(<< "2", ".", "3" >>), NaN,
             NaN, NaN, Txt(sParis), Txt(sZoneControlee)),
      RawRow(Txt(<< "B" >>), Txt(sNation), Txt(<< "x" >>), Num(<< "4", "8", ".", "9" >>),
             NaN, NaN, Txt(sNanterre), NaN) }

\* The raw tables: every sequence of at most MaxRows rows.
RawTables == UNION { [1..n -> RawRows] : n \in 0..MaxRows }

(***************************************************************************)
(* prepare_data                                                            *)
(***************************************************************************)

rename_map(c) ==
    CASE c = "Ligne" -> "ligne"
      [] c = "Station ou Gare" -> "station"
      [] c = "Longitude" -> "longitude"
      [] c = "Latitude" -> "latitude"
      [] c = "Adresse" -> "adresse"
      [] c = "Code postal" -> "code_postal"
      [] c = "Commune" -> "commune"
      [] c = "En zone contrôlée ou non" -> "zone_controlee"
      [] c = "Point_geographique" -> "point_geo"

\* df.rename(columns=rename_map) of row i; the field index is the row's label
\* in the data frame's index, which every later step keeps.
rename(row, i) ==
    [ index |-> i,
      ligne |-> row[CHOOSE c \in RawColumns : rename_map(c) = "ligne"],
      station |-> row[CHOOSE c \in RawColumns : rename_map(c) = "station"],
      longitude |-> row[CHOOSE c \in RawColumns : rename_map(c) = "longitude"],
      latitude |-> row[CHOOSE c \in RawColumns : rename_map(c) = "latitude"],
      adresse |-> row[CHOOSE c \in RawColumns : rename_map(c) = "adresse"],
      code_postal |-> row[CHOOSE c \in RawColumns : rename_map(c) = "code_postal"],
      commune |-> row[CHOOSE c \in RawColumns : rename_map(c) = "commune"],
      zone_controlee |-> row[CHOOSE c \in RawColumns : rename_map(c) = "zone_controlee"],
      point_geo |-> row[CHOOSE c \in RawColumns : rename_map(c) = "point_geo"] ]

\* Lines 53-55: ligne, station and commune cast to str.
cast_str(r) ==
    [r EXCEPT !.ligne = astype_str(@), !.station = astype_str(@),
              !.commune = astype_str(@)]

\* Lines 57-58: latitude and longitude parsed, unparsable values coerced to NaN.
coerce_coords(r) ==
    [r EXCEPT !.latitude = to_numeric(@), !.longitude = to_numeric(@)]

\* A faulty variant of dropna: the subset is latitude alone.
dropna_latitude_only(rows) == SelectSeq(rows, LAMBDA r : ~isna(r.latitude))

\* Line 59: dropna(subset=["latitude", "longitude"]).
dropna(rows) ==
    SelectSeq(rows, LAMBDA r : ~isna(r.latitude) /\ ~isna(r.longitude))

non_renseigne == << "n", "o", "n", " ", "r", "e", "n", "s", "e", "i", "g", "n", "é" >>

\* A faulty variant of fill_zone: fillna is left out.
fill_zone_no_fillna(r) == [r EXCEPT !.zone_controlee = str_lower(@)]

\* Line 61: zone_controlee.fillna("non renseigné").str.lower().
fill_zone(r) ==
    [r EXCEPT !.zone_controlee = str_lower(fillna(@, non_renseigne))]

\* The three values of type_reseau.
Metro == << "M", "é", "t", "r", "o" >>
RER == << "R", "E", "R" >>
Autre == << "A", "u", "t", "r", "e" >>

\* A faulty variant of classify_ligne: the line is not stripped.
classify_ligne_no_strip(x) ==
    IF isdigit(x) THEN Metro
    ELSE IF x \in { << "A" >>, << "B" >>, << "C" >>, << "D" >>, << "E" >> } THEN RER
    ELSE Autre

\* Lines 63-69.
classify_ligne(x) ==
    LET x_strip == strip(x) IN
        IF isdigit(x_strip) THEN Metro
        ELSE IF x_strip \in { << "A" >>, << "B" >>, << "C" >>, << "D" >>, << "E" >> }
             THEN RER
        ELSE Autre

\* Line 71: the column type_reseau.
add_type_reseau(r) ==
    [ index |-> r.index, ligne |-> r.ligne, station |-> r.station,
      longitude |-> r.longitude, latitude |-> r.latitude, adresse |-> r.adresse,
      code_postal |-> r.code_postal, commune |-> r.commune,
      zone_controlee |-> r.zone_controlee, point_geo |-> r.point_geo,
      type_reseau |-> Txt(classify_ligne(text(r.ligne))) ]

prepare_data(table) ==
    LET renamed == [i \in 1..Len(table) |-> rename(table[i], i)]
        typed == [i \in 1..Len(renamed) |-> coerce_coords(cast_str(renamed[i]))]
        kept == dropna(typed)
    IN  [i \in 1..Len(kept) |-> add_type_reseau(fill_zone(kept[i]))]


(***************************************************************************)
(* apply_filters                                                           *)
(***************************************************************************)

\* The values of a column, as a set.
column(rows, col) == { rows[i][col] : i \in 1..Len(rows) }

\* sorted(S) for a set of str cells.
RECURSIVE sorted(_)
sorted(S) ==
    IF S = {} THEN << >>
    ELSE LET m == CHOOSE x \in S : \A y \in S : ~str_lt(text(y), text(x))
         IN  << m >> \o sorted(S \ {m})

\* A faulty variant of unique: the value of the first row is left out.
unique_skip_first(rows, col) == { rows[i][col] : i \in 2..Len(rows) }

\* Series.unique(): the distinct values of a column.
unique(rows, col) == column(rows, col)

\* A faulty variant of isin: every row passes.
isin_always(rows, col, selected) == rows

\* df[df[col].isin(selected)]: the rows whose value is selected, in order.
isin(rows, col, selected) == SelectSeq(rows, LAMBDA r : r[col] \in selected)

controlee == << "c", "o", "n", "t", "r", "ô", "l", "é", "e" >>

\* Line 112: zone_controlee.str.contains("contrôlée").
zone_mask(r) == contains(text(r.zone_controlee), controlee)

\* A faulty variant of filter_zone: the checkbox is ignored.
filter_zone_always(rows, only_zone) == SelectSeq(rows, zone_mask)

\* Lines 111-112.
filter_zone(rows, only_zone) ==
    IF only_zone THEN SelectSeq(rows, zone_mask) ELSE rows

\* A faulty variant of empty: never true.
empty_never(rows) == FALSE

\* Line 114: DataFrame.empty.
empty(rows) == Len(rows) = 0

(***************************************************************************)
(* show_kpis, show_synthese, the detailed table                            *)
(***************************************************************************)

\* A faulty variant of nunique: the values are counted, not the distinct values.
nunique_count(rows, col) == Cardinality({ i \in 1..Len(rows) : ~isna(rows[i][col]) })

\* Series.nunique(): the number of distinct values, missing values left out.
nunique(rows, col) == Cardinality({ v \in column(rows, col) : ~isna(v) })

\* Lines 127-133 and 141-144: the four numbers.
kpi_tuple(rows) ==
    << Len(rows), nunique(rows, "ligne"), nunique(rows, "station"),
       nunique(rows, "commune") >>

colonnes_affichees ==
    << "type_reseau", "ligne", "station", "adresse", "code_postal", "commune",
       "zone_controlee", "latitude", "longitude" >>

\* df_filtered[colonnes_affichees]: one row as its cells in column order,
\* with its index label.
project(r) ==
    [ index |-> r.index,
      cells |-> [k \in 1..Len(colonnes_affichees) |-> r[colonnes_affichees[k]]] ]

\* Whether row a sorts strictly before row b by (type_reseau, ligne, station).
key_lt(a, b) ==
    LET ta == text(a.cells[1])  tb == text(b.cells[1])
        la == text(a.cells[2])  lb == text(b.cells[2])
        sa == text(a.cells[3])  sb == text(b.cells[3])
    IN  \/ str_lt(ta, tb)
        \/ ta = tb /\ str_lt(la, lb)
        \/ ta = tb /\ la = lb /\ str_lt(sa, sb)

\* sort_values(["type_reseau", "ligne", "station"]): ascending, rows with
\* equal keys in their order of arrival.
RECURSIVE sort_values(_)
sort_values(rows) ==
    IF rows = << >> THEN << >>
    ELSE LET front == sort_values(SubSeq(rows, 1, Len(rows) - 1))
             x == rows[Len(rows)]
             k == Cardinality({ i \in 1..Len(front) : ~key_lt(x, front[i]) })
         IN  SubSeq(front, 1, k) \o << x >> \o SubSeq(front, k + 1, Len(front))

\* One cell as to_csv writes it: a missing value as the empty field.
csv_field(cell) == IF isna(cell) THEN << >> ELSE text(cell)

\* A faulty variant of to_csv: the index column is written too (index=True).
to_csv_with_index(rows) ==
    << << "index" >> \o colonnes_affichees >> \o
    [i \in 1..Len(rows) |->
        << << "0" >> >> \o [k \in 1..Len(rows[i].cells) |-> csv_field(rows[i].cells[k])]]

\* Line 30: to_csv(index=False): the header, then one line per row, in the
\* order of the rows.
to_csv(rows) ==
    << colonnes_affichees >> \o
    [i \in 1..Len(rows) |->
        [k \in 1..Len(rows[i].cells) |-> csv_field(rows[i].cells[k])]]

\* groupby(cols).size(): the number of rows of each group.
groupby_size(rows, cols) ==
    LET key(r) == [k \in 1..Len(cols) |-> r[cols[k]]]
        keys == { key(rows[i]) : i \in 1..Len(rows) }
    IN  [g \in keys |-> Cardinality({ i \in 1..Len(rows) : key(rows[i]) = g })]

(***************************************************************************)
(* State                                                                   *)
(***************************************************************************)

VARIABLES
    raw,                \* the raw table read by load_raw_data
    page,               \* the page script being run
    pc,                 \* where the rendering pass is
    df,                 \* the prepared table returned by get_data
    df_filtered,        \* apply_filters' df_filtered
    types_reseau,       \* the options of the first multiselect
    selected_types,
    lignes,             \* the options of the second multiselect
    selected_lignes,
    communes,           \* the options of the third multiselect
    selected_communes,
    only_zone_ctrl,     \* the checkbox
    warning,            \* whether st.warning was shown in this pass
    rendered,           \* what the pass has shown after the filters
    kpis,               \* the four numbers given to st.metric
    synthese,           \* the four numbers and the label of the synthesis
    counts,             \* the group sizes behind the bar chart and the ranking
    table,              \* the rows given to st.dataframe by the detailed page
    csv_rows            \* the lines of the exported CSV

filters == << types_reseau, selected_types, lignes, selected_lignes, communes,
              selected_communes, only_zone_ctrl, warning >>
outputs == << rendered, kpis, synthese, counts, table, csv_rows >>
vars == << raw, page, pc, df, df_filtered, filters, outputs >>

Pages == { "Accueil", "Carte", "Par ligne", "Par commune", "Tableau détaillé" }

Range(s) == { s[i] : i \in 1..Len(s) }

\* The state of a pass that has not started.
PassReset ==
    /\ pc' = "start"
    /\ df_filtered' = << >>
    /\ types_reseau' = << >> /\ selected_types' = {}
    /\ lignes' = << >> /\ selected_lignes' = {}
    /\ communes' = << >> /\ selected_communes' = {}
    /\ only_zone_ctrl' = FALSE
    /\ warning' = FALSE
    /\ rendered' = {}
    /\ kpis' = << >>
    /\ synthese' = << >>
    /\ counts' = << >>
    /\ table' = << >>
    /\ csv_rows' = << >>

Init ==
    /\ raw \in RawTables
    /\ page = "Accueil"
    /\ pc = "start"
    /\ df = << >>
    /\ df_filtered = << >>
    /\ types_reseau = << >> /\ selected_types = {}
    /\ lignes = << >> /\ selected_lignes = {}
    /\ communes = << >> /\ selected_communes = {}
    /\ only_zone_ctrl = FALSE
    /\ warning = FALSE
    /\ rendered = {}
    /\ kpis = << >>
    /\ synthese = << >>
    /\ counts = << >>
    /\ table = << >>
    /\ csv_rows = << >>

\* df = get_data(): the prepared table (cached, the same at every pass).
get_data ==
    /\ pc = "start"
    /\ df' = prepare_data(raw)
    /\ pc' = "types"
    /\ UNCHANGED << raw, page, df_filtered, filters, outputs >>

\* Lines 86-92: the network types offered and chosen, and the first filter.
select_types ==
    /\ pc = "types"
    /\ LET options == sorted(unique(df, "type_reseau")) IN
        /\ types_reseau' = options
        /\ \E selected \in SUBSET Range(options) :
            /\ selected_types' = selected
            /\ df_filtered' = isin(df, "type_reseau", selected)
    /\ pc' = "lignes"
    /\ UNCHANGED << raw, page, df, lignes, selected_lignes, communes,
                    selected_communes, only_zone_ctrl, warning, outputs >>

\* Lines 94-100: the lines offered and chosen, and the second filter.
select_lignes ==
    /\ pc = "lignes"
    /\ LET options == sorted(unique(df_filtered, "ligne")) IN
        /\ lignes' = options
        /\ \E selected \in SUBSET Range(options) :
            /\ selected_lignes' = selected
            /\ df_filtered' = isin(df_filtered, "ligne", selected)
    /\ pc' = "communes"
    /\ UNCHANGED << raw, page, df, types_reseau, selected_types, communes,
                    selected_communes, only_zone_ctrl, warning, outputs >>

\* Lines 102-108: the municipalities offered and chosen, and the third filter.
select_communes ==
    /\ pc = "communes"
    /\ LET options == sorted(unique(df_filtered, "commune")) IN
        /\ communes' = options
        /\ \E selected \in SUBSET Range(options) :
            /\ selected_communes' = selected
            /\ df_filtered' = isin(df_filtered, "commune", selected)
    /\ pc' = "zone"
    /\ UNCHANGED << raw, page, df, types_reseau, selected_types, lignes,
                    selected_lignes, only_zone_ctrl, warning, outputs >>

\* Lines 110-118: the checkbox, the last filter, and the end of apply_filters:
\* the warning and st.stop() on an empty result, the return otherwise.
select_zone ==
    /\ pc = "zone"
    /\ \E checked \in BOOLEAN :
        LET result == filter_zone(df_filtered, checked) IN
            /\ only_zone_ctrl' = checked
            /\ df_filtered' = result
            /\ IF empty(result)
               THEN warning' = TRUE /\ pc' = "stopped"
               ELSE warning' = FALSE /\ pc' = "kpis"
    /\ UNCHANGED << raw, page, df, types_reseau, selected_types, lignes,
                    selected_lignes, communes, selected_communes, outputs >>

show_kpis ==
    /\ pc = "kpis"
    /\ kpis' = kpi_tuple(df_filtered)
    /\ rendered' = rendered \cup { "kpis" }
    /\ pc' = "body"
    /\ UNCHANGED << raw, page, df, df_filtered, filters, synthese, counts, table, csv_rows >>

\* app.py lines 237-250: the welcome text.
body_accueil ==
    /\ pc = "body" /\ page = "Accueil"
    /\ rendered' = rendered \cup { "bienvenue" }
    /\ pc' = "synthese"
    /\ UNCHANGED << raw, page, df, df_filtered, filters, kpis, synthese, counts, table,
                    csv_rows >>

\* pages/1_Carte.py lines 11-15: plot_map.
body_carte ==
    /\ pc = "body" /\ page = "Carte"
    /\ rendered' = rendered \cup { "plot_map" }
    /\ pc' = "synthese"
    /\ UNCHANGED << raw, page, df, df_filtered, filters, kpis, synthese, counts, table,
                    csv_rows >>

\* pages/2_Par_ligne.py lines 17-31: plot_bar_by_line and the ranking of lines.
body_par_ligne ==
    /\ pc = "body" /\ page = "Par ligne"
    /\ counts' = << groupby_size(df_filtered, << "type_reseau", "ligne" >>),
                    groupby_size(df_filtered, << "ligne" >>) >>
    /\ rendered' = rendered \cup { "plot_bar_by_line", "top10_lines" }
    /\ pc' = "synthese"
    /\ UNCHANGED << raw, page, df, df_filtered, filters, kpis, synthese, table, csv_rows >>

\* pages/3_Par_commune.py lines 17-31: plot_bar_by_commune and the ranking.
body_par_commune ==
    /\ pc = "body" /\ page = "Par commune"
    /\ counts' = << groupby_size(df_filtered, << "commune" >>),
                    groupby_size(df_filtered, << "commune" >>) >>
    /\ rendered' = rendered \cup { "plot_bar_by_commune", "top10_communes" }
    /\ pc' = "synthese"
    /\ UNCHANGED << raw, page, df, df_filtered, filters, kpis, synthese, table, csv_rows >>

\* pages/4_Tableau_detaille.py lines 11-37: the sorted table and the CSV.
body_tableau ==
    /\ pc = "body" /\ page = "Tableau détaillé"
    /\ LET shown == [i \in 1..Len(df_filtered) |-> project(df_filtered[i])] IN
        /\ table' = sort_values(shown)
        /\ csv_rows' = to_csv(shown)
    /\ rendered' = rendered \cup { "dataframe", "csv" }
    /\ pc' = "synthese"
    /\ UNCHANGED << raw, page, df, df_filtered, filters, kpis, synthese, counts >>

show_synthese ==
    /\ pc = "synthese"
    /\ synthese' = kpi_tuple(df_filtered) \o << page >>
    /\ rendered' = rendered \cup { "synthese" }
    /\ pc' = "done"
    /\ UNCHANGED << raw, page, df, df_filtered, filters, kpis, counts, table, csv_rows >>

\* A user interaction (a filter change, a navigation) starts a new pass of
\* some page's script.
rerun ==
    /\ pc \in { "done", "stopped" }
    /\ \E p \in Pages : page' = p
    /\ PassReset
    /\ UNCHANGED << raw, df >>

Next ==
    \/ get_data
    \/ select_types
    \/ select_lignes
    \/ select_communes
    \/ select_zone
    \/ show_kpis
    \/ body_accueil
    \/ body_carte
    \/ body_par_ligne
    \/ body_par_commune
    \/ body_tableau
    \/ show_synthese
    \/ rerun

Spec == Init /\ [][Next]_vars
(***************************************************************************)
(* Properties                                                              *)
(***************************************************************************)

\* The positions of a pass at which apply_filters has ended.
AfterFilters == { "stopped", "kpis", "body", "synthese", "done" }

\* A raw cell that holds a number or a text that reads as one.
NumericRaw(cell) ==
    \/ kind(cell) = "num"
    \/ kind(cell) = "str" /\ is_number_text(text(cell))

ValidCoordinates(row) == NumericRaw(row["Latitude"]) /\ NumericRaw(row["Longitude"])

Increasing(rows) == \A j \in 1..(Len(rows) - 1) : rows[j].index < rows[j + 1].index

\* C1: the prepared table holds, in input order, exactly the raw rows whose
\* latitude and longitude are both numeric, and every prepared record has
\* numeric coordinates.
C1_DropExactlyInvalidCoordinates ==
    pc # "start" =>
        /\ { df[j].index : j \in 1..Len(df) }
             = { i \in 1..Len(raw) : ValidCoordinates(raw[i]) }
        /\ Increasing(df)
        /\ \A j \in 1..Len(df) :
            /\ kind(df[j].latitude) = "num" /\ kind(df[j].longitude) = "num"
            /\ df[j].station = astype_str(raw[df[j].index]["Station ou Gare"])

\* A raw table with one row kept and one row dropped for a longitude that is
\* a text but no number.
C1_Witness ==
    /\ pc # "start"
    /\ Len(raw) = 2 /\ Len(df) = 1
    /\ \E i \in 1..Len(raw) :
        kind(raw[i]["Longitude"]) = "str" /\ ~NumericRaw(raw[i]["Longitude"])

OnlyDigits(s) == s # << >> /\ \A i \in 1..Len(s) : IsDigitChar(s[i])

RerLetters == { << "A" >>, << "B" >>, << "C" >>, << "D" >>, << "E" >> }

\* The classification a line stands for when it is read as the text l.
Classified(t, l) ==
    /\ t = Metro <=> OnlyDigits(l)
    /\ t = RER <=> l \in RerLetters
    /\ t = Autre <=> ~OnlyDigits(l) /\ l \notin RerLetters

\* C2 as stated: Metro iff the line itself is composed only of digits, RER
\* iff the line itself is one of A..E, Other otherwise, a line with
\* surrounding whitespace included.
C2_ClassifiedOnTheLineItself ==
    pc # "start" =>
        \A j \in 1..Len(df) : Classified(text(df[j].type_reseau), text(df[j].ligne))

\* C2 (amended): Metro iff the line with its surrounding whitespace removed
\* is non-empty and composed only of digits, RER iff the line so stripped is
\* one of A..E, Other in every remaining case.
C2_ClassifiedOnTheStrippedLine ==
    pc # "start" =>
        \A j \in 1..Len(df) :
            /\ Classified(text(df[j].type_reseau), strip(text(df[j].ligne)))
            /\ kind(df[j].type_reseau) = "str"

\* A prepared record whose line has surrounding whitespace and is a Metro
\* line, beside a record of a line absent in the raw data.
C2_Witness ==
    /\ pc # "start"
    /\ \E j \in 1..Len(df) :
        /\ strip(text(df[j].ligne)) # text(df[j].ligne)
        /\ text(df[j].type_reseau) = Metro
    /\ \E j \in 1..Len(df) :
        isna(raw[df[j].index]["Ligne"]) /\ text(df[j].type_reseau) = Autre

\* C3: an empty filtered set raises the notice and stops the pass before
\* show_kpis, the page's plots, table and export, and show_synthese; a
\* non-empty one raises no notice and is what the page goes on with; no
\* indicator is ever computed on an empty set.
C3_EmptyResultStopsThePass ==
    /\ (pc \in AfterFilters /\ Len(df_filtered) = 0) =>
            /\ pc = "stopped" /\ warning
            /\ rendered = {} /\ kpis = << >> /\ synthese = << >>
            /\ counts = << >> /\ table = << >> /\ csv_rows = << >>
    /\ (pc \in AfterFilters /\ Len(df_filtered) > 0) => (pc # "stopped" /\ ~warning)
    /\ pc \notin AfterFilters => (~warning /\ rendered = {})
    /\ rendered # {} => "kpis" \in rendered
    /\ kpis # << >> => kpis[1] > 0
    /\ synthese # << >> => synthese[1] > 0

\* A pass of the detailed page, after an earlier pass, stopped on an empty
\* result of a table that is not empty.
C3_Witness ==
    /\ pc = "stopped" /\ page = "Tableau détaillé"
    /\ warning /\ Len(df) > 0 /\ selected_types # {}

\* C4: the lines offered are the distinct lines of the prepared records of
\* the selected network types; the municipalities offered are the distinct
\* municipalities of the prepared records of the selected types and lines.
C4_CascadingOptions ==
    /\ pc \in { "communes", "zone" } \cup AfterFilters =>
        /\ Range(lignes)
             = { df[i].ligne : i \in { k \in 1..Len(df) :
                                         df[k].type_reseau \in selected_types } }
        /\ Len(lignes) = Cardinality(Range(lignes))
    /\ pc \in { "zone" } \cup AfterFilters =>
        /\ Range(communes)
             = { df[i].commune : i \in { k \in 1..Len(df) :
                                           /\ df[k].type_reseau \in selected_types
                                           /\ df[k].ligne \in selected_lignes } }
        /\ Len(communes) = Cardinality(Range(communes))

\* The municipalities offered are fewer than those of the whole table, for a
\* selection that leaves out one of two lines.
C4_Witness ==
    /\ pc = "zone"
    /\ Len(communes) = 1
    /\ Cardinality(column(df, "commune")) = 2
    /\ Cardinality(selected_lignes) = 1 /\ Len(lignes) = 2

AllSelected ==
    /\ selected_types = Range(types_reseau)
    /\ selected_lignes = Range(lignes)
    /\ selected_communes = Range(communes)

\* C5: with every facet at all of its values and the checkbox off, the
\* result is the prepared table itself, for every non-empty prepared table.
C5_AllSelectedIsIdentity ==
    (pc \in AfterFilters /\ Len(df) > 0 /\ AllSelected /\ ~only_zone_ctrl) =>
        (df_filtered = df /\ pc # "stopped" /\ ~warning)

\* Everything selected on a table of two records, one of them outside the
\* controlled zone.
C5_Witness ==
    /\ pc = "kpis" /\ AllSelected /\ ~only_zone_ctrl
    /\ Len(df) = 2
    /\ \E j \in 1..Len(df) : ~zone_mask(df[j])

\* The line of the CSV that stands for a record.
CsvLine(r) == [k \in 1..Len(colonnes_affichees) |-> csv_field(r[colonnes_affichees[k]])]

\* Whether CSV line a sorts strictly before line b by its first three fields.
CsvLineLt(a, b) ==
    \/ str_lt(a[1], b[1])
    \/ a[1] = b[1] /\ str_lt(a[2], b[2])
    \/ a[1] = b[1] /\ a[2] = b[2] /\ str_lt(a[3], b[3])

CsvHeaderAndRecords ==
    /\ csv_rows[1] = << "type_reseau", "ligne", "station", "adresse", "code_postal",
                        "commune", "zone_controlee", "latitude", "longitude" >>
    /\ Len(csv_rows) = Len(df_filtered) + 1
    /\ \E f \in [1..Len(df_filtered) -> 1..Len(df_filtered)] :
        /\ \A i, j \in 1..Len(df_filtered) : f[i] = f[j] => i = j
        /\ \A i \in 1..Len(df_filtered) : csv_rows[i + 1] = CsvLine(df_filtered[f[i]])

\* C6 as stated: the CSV has the fixed header, the records of the filtered
\* set, and its lines sorted ascending by (type_reseau, ligne, station).
C6_CsvIsSorted ==
    "csv" \in rendered =>
        /\ CsvHeaderAndRecords
        /\ \A i \in 2..(Len(csv_rows) - 1) : ~CsvLineLt(csv_rows[i + 1], csv_rows[i])

\* C6 (amended): the CSV has the fixed header and the records of the
\* filtered set in the order of the filtered set; the table shown on the
\* page, not the CSV, is sorted ascending by (type_reseau, ligne, station).
C6_CsvInFilteredOrder ==
    "csv" \in rendered =>
        /\ CsvHeaderAndRecords
        /\ \A i \in 1..Len(df_filtered) : csv_rows[i + 1] = CsvLine(df_filtered[i])
        /\ Len(table) = Len(df_filtered)
        /\ { table[i].index : i \in 1..Len(table) }
             = { df_filtered[i].index : i \in 1..Len(df_filtered) }
        /\ \A i \in 1..(Len(table) - 1) : ~key_lt(table[i + 1], table[i])

\* An export whose lines are not in ascending order.
C6_Witness ==
    /\ "csv" \in rendered
    /\ \E i \in 2..(Len(csv_rows) - 1) : CsvLineLt(csv_rows[i + 1], csv_rows[i])

sNan == << "n", "a", "n" >>

\* C7 as stated: no string field of a prepared record is null; a value
\* absent in the raw row is the empty string, or the sentinel for
\* zone_controlee, which is always lower-case.
C7_NoNullStringField ==
    pc # "start" =>
        \A j \in 1..Len(df) :
            LET source == rename(raw[df[j].index], df[j].index) IN
                /\ \A col \in { "ligne", "station", "adresse", "code_postal", "commune" } :
                    /\ ~isna(df[j][col])
                    /\ isna(source[col]) => df[j][col] = Txt(<< >>)
                /\ ~isna(df[j].zone_controlee)
                /\ isna(source.zone_controlee) => df[j].zone_controlee = Txt(non_renseigne)
                /\ lower(text(df[j].zone_controlee)) = text(df[j].zone_controlee)

\* C7 (amended): ligne, station, commune and zone_controlee are never null:
\* an absent ligne, station or commune is the text "nan", an absent
\* zone_controlee the sentinel, and zone_controlee is lower-case; adresse and
\* code_postal are the raw values, null when absent.
C7_NullOnlyInUncastFields ==
    pc # "start" =>
        \A j \in 1..Len(df) :
            LET source == rename(raw[df[j].index], df[j].index) IN
                /\ \A col \in { "ligne", "station", "commune" } :
                    /\ kind(df[j][col]) = "str"
                    /\ isna(source[col]) => df[j][col] = Txt(sNan)
                /\ kind(df[j].zone_controlee) = "str"
                /\ isna(source.zone_controlee) => df[j].zone_controlee = Txt(non_renseigne)
                /\ lower(text(df[j].zone_controlee)) = text(df[j].zone_controlee)
                /\ \A col \in { "adresse", "code_postal" } : df[j][col] = source[col]

\* A prepared table with a station absent in the raw row, a null postal
\* code, a null address and a controlled zone absent in the raw row.
C7_Witness ==
    /\ pc # "start"
    /\ \E j \in 1..Len(df) : df[j].station = Txt(sNan) /\ isna(df[j].code_postal)
    /\ \E j \in 1..Len(df) :
        isna(df[j].adresse) /\ df[j].zone_controlee = Txt(non_renseigne)

\* The four numbers counted on the filtered set itself.
DirectCounts ==
    << Len(df_filtered),
       Cardinality({ df_filtered[i].ligne : i \in 1..Len(df_filtered) }),
       Cardinality({ df_filtered[i].station : i \in 1..Len(df_filtered) }),
       Cardinality({ df_filtered[i].commune : i \in 1..Len(df_filtered) }) >>

\* C8: the indicators are the number of records and the numbers of distinct
\* lines, stations and municipalities of the filtered set, and the synthesis
\* holds the same four numbers.
C8_KpisAreDirectCounts ==
    /\ "kpis" \in rendered => kpis = DirectCounts
    /\ "synthese" \in rendered =>
        /\ Len(synthese) = 5
        /\ SubSeq(synthese, 1, 4) = DirectCounts
        /\ SubSeq(synthese, 1, 4) = kpis
        /\ synthese[5] = page

\* A synthesis of two records of one station, absent in the raw rows.
C8_Witness ==
    /\ "synthese" \in rendered
    /\ kpis[1] = 2 /\ kpis[3] = 1
    /\ \E i \in 1..Len(df_filtered) : df_filtered[i].station = Txt(sNan)

\* Whether a text holds the word "contrôlée".
HasControlee(s) ==
    \E i \in 1..Len(s) :
        /\ i + 8 <= Len(s)
        /\ << s[i], s[i + 1], s[i + 2], s[i + 3], s[i + 4], s[i + 5], s[i + 6],
              s[i + 7], s[i + 8] >>
             = << "c", "o", "n", "t", "r", "ô", "l", "é", "e" >>

\* The prepared records that pass the three multiselects, in order.
PassedSelections ==
    SelectSeq(df, LAMBDA r : /\ r.type_reseau \in selected_types
                             /\ r.ligne \in selected_lignes
                             /\ r.commune \in selected_communes)

\* C9: with the checkbox on, the result is the records that passed the three
\* selections and whose zone_controlee holds "contrôlée", none of them with
\* the sentinel; with the checkbox off, all that passed the selections.
C9_ControlledZoneOnly ==
    pc \in AfterFilters =>
        IF only_zone_ctrl
        THEN /\ df_filtered
                  = SelectSeq(PassedSelections,
                              LAMBDA r : HasControlee(text(r.zone_controlee)))
             /\ \A j \in 1..Len(df_filtered) :
                    df_filtered[j].zone_controlee # Txt(non_renseigne)
        ELSE df_filtered = PassedSelections

\* The checkbox on, a record kept and a record with the sentinel left out.
C9_Witness ==
    /\ pc \in AfterFilters /\ only_zone_ctrl
    /\ Len(df_filtered) = 1
    /\ \E j \in 1..Len(PassedSelections) :
        PassedSelections[j].zone_controlee = Txt(non_renseigne)

\* The prepared records that satisfy the criteria read so far.
Conjunction(with_lignes, with_communes, with_zone) ==
    SelectSeq(df, LAMBDA r :
        /\ r.type_reseau \in selected_types
        /\ with_lignes => r.ligne \in selected_lignes
        /\ with_communes => r.commune \in selected_communes
        /\ (with_zone /\ only_zone_ctrl) => HasControlee(text(r.zone_controlee)))

\* C10: after each filter the candidate set is the subsequence of the
\* prepared table that satisfies every criterion read so far, so the
\* result is the subsequence satisfying all of them.
C10_FiltersComposeAsAnd ==
    /\ pc = "lignes" => df_filtered = Conjunction(FALSE, FALSE, FALSE)
    /\ pc = "communes" => df_filtered = Conjunction(TRUE, FALSE, FALSE)
    /\ pc = "zone" => df_filtered = Conjunction(TRUE, TRUE, FALSE)
    /\ pc \in AfterFilters => df_filtered = Conjunction(TRUE, TRUE, TRUE)
    /\ pc # "start" =>
        /\ Increasing(df_filtered)
        /\ \A j \in 1..Len(df_filtered) : df_filtered[j] \in Range(df)

\* A result without the first of two records, which the municipality
\* selection alone removed.
C10_Witness ==
    /\ pc = "kpis" /\ ~only_zone_ctrl
    /\ Len(df) = 2 /\ Len(df_filtered) = 1 /\ df_filtered[1] = df[2]
    /\ selected_types = Range(types_reseau)
    /\ selected_lignes = Range(lignes)
====
